---- MODULE Spec2Model ----
(***************************************************************************)
(* Model of SocketService (src/lib/socket.ts): a WebSocket client with     *)
(* fallback to per-hotel Server-Sent-Event streams.                        *)
(*                                                                         *)
(* Every handler of the class is an operator from a manager state (a       *)
(* record of the object's fields and of the browser objects it created)    *)
(* to the manager state after the handler; every action of the model is    *)
(* one event-loop task: a public method call, a transport event or a timer *)
(* callback.  Browser objects have no numeric identity: the WebSocket and  *)
(* EventSource objects that are still alive are kept in bags, with a flag  *)
(* telling whether the manager still references them.                      *)
(***************************************************************************)
EXTENDS Bags, FiniteSets, Integers, Sequences, TLC

VARIABLES
    production,         \* IS_PRODUCTION (fixed by the environment)
    wsObjs,             \* bag of live WebSocket objects created by the manager
    isConnected,        \* this.isConnected
    useSSE,             \* this.useSSE
    reconnectAttempts,  \* this.reconnectAttempts
    reconnectTimer,     \* this.reconnectTimer: NULL or a (truthy) timer handle
    wsTimers,           \* bag of pending reconnect timers (setTimeout of attemptReconnect)
    eventListeners,     \* this.eventListeners: key -> sequence of callbacks
    esObjs,             \* bag of live EventSource objects created by the manager
    sseTimers,          \* bag of pending SSE retry timers (setTimeout of onerror)
    sent,               \* frames handed to socket.send, oldest first (history)
    delivered,          \* callback invocations of the last inbound message (history)
    failStreak,         \* close codes of the attempts that failed in a row (history)
    scope               \* which bounds and history the specification explores (fixed)

vars == <<production, wsObjs, isConnected, useSSE, reconnectAttempts, reconnectTimer,
          wsTimers, eventListeners, esObjs, sseTimers, sent, delivered, failStreak, scope>>

----------------------------------------------------------------------------
(* Bounds of the model *)

\* Spec: live WebSocket objects (referenced, closing, or orphaned with handlers)
MaxSockets == 1
\* Spec: live EventSource objects
MaxStreams == 1
\* Spec: pending reconnect timers
MaxWsTimers == 1
\* Spec: pending SSE retry timers
MaxSseTimers == 1
\* cap of reconnectAttempts (the SSE retry callback increments without a ceiling)
MaxAttempts == 3
\* Spec and SpecWide: listeners per key
MaxListeners == 1
\* SpecWide: live WebSocket objects
WideSockets == 2
\* SpecWide: live EventSource objects
WideStreams == 2
\* SpecWide: pending reconnect timers
WideWsTimers == 2
\* SpecMsg: listeners per key
MsgListeners == 2
\* SpecMsg: frames remembered in sent
MaxSent == 1

----------------------------------------------------------------------------
(* Program constants *)

maxReconnectAttempts == 2
reconnectInterval == 1000
CONNECTING == 0
OPEN == 1
CLOSING == 2
CLOSED == 3
ES_CLOSED == 2
BLOCKED == 1006
NORMAL == 1000

NULL == "null"
HANDLE == "handle"

Hotels == {"h1"}
Callbacks == {"cb1"}
CloseCodes == {NORMAL, BLOCKED}

----------------------------------------------------------------------------
(* Bags of browser objects *)

One(x) == SetToBag({x})
Put(b, x) == b (+) One(x)
Take(b, x) == b (-) One(x)
Swap(b, x, y) == Put(Take(b, x), y)
Keep(b, Test(_)) == [x \in {y \in DOMAIN b : Test(y)} |-> b[x]]

\* new WebSocket(wsUrl): referenced by this.socket, connecting, its
\* connectionTimeout pending
NewSocket == [ref |-> TRUE, readyState |-> CONNECTING, timeout |-> TRUE, stale |-> FALSE]
\* new EventSource(sseUrl) for one hotel, held in sseConnections
NewStream(hotelId) == [hotelId |-> hotelId, mapped |-> TRUE, readyState |-> CONNECTING,
                       stale |-> FALSE]

\* setTimeout(callback, delay): the model has no clock, so the delay of a pending
\* timer has no effect on what follows; it is recorded outside scope "core" only
setTimeout(delay) == IF scope = "core" THEN NULL ELSE delay

\* The manager state: the fields of SocketService and the objects it created.
St == [wsObjs |-> wsObjs, isConnected |-> isConnected, useSSE |-> useSSE,
       reconnectAttempts |-> reconnectAttempts, reconnectTimer |-> reconnectTimer,
       wsTimers |-> wsTimers, eventListeners |-> eventListeners, esObjs |-> esObjs,
       sseTimers |-> sseTimers, sent |-> sent, delivered |-> << >>]

\* this.socket is not null
hasSocket(st) == \E w \in BagToSet(st.wsObjs) : w.ref
\* this.socket, when it is not null
socketOf(st) == CHOOSE w \in BagToSet(st.wsObjs) : w.ref

\* the keys of this.sseConnections
sseKeys(st) == {e.hotelId : e \in {x \in BagToSet(st.esObjs) : x.mapped}}
sseConnections == sseKeys(St)

\* WebSocket.close(): an open or connecting socket starts closing; its close
\* event is delivered later
closeSocket(w) ==
    IF w.readyState \in {CONNECTING, OPEN} THEN [w EXCEPT !.readyState = CLOSING] ELSE w

\* this.socket.close(); this.socket = null.  A socket that is CLOSED and no
\* longer referenced delivers no further event and is dropped.
closeAndForget(st) ==
    IF ~hasSocket(st) THEN st
    ELSE LET w == socketOf(st) IN
         IF w.readyState = CLOSED
           THEN [st EXCEPT !.wsObjs = Take(@, w)]
           ELSE [st EXCEPT !.wsObjs = Swap(@, w, [closeSocket(w) EXCEPT !.ref = FALSE])]

\* if (this.reconnectTimer) { clearTimeout(this.reconnectTimer); this.reconnectTimer = null; }
clearReconnectTimer(st) ==
    IF st.reconnectTimer = NULL THEN st
    ELSE [st EXCEPT !.wsTimers = Keep(@, LAMBDA t : ~t.held), !.reconnectTimer = NULL]

\* clearTimeout(connectionTimeout) in the handlers of socket w
clearConnectionTimeout(st, w) ==
    IF BagIn(w, st.wsObjs) /\ w.timeout
      THEN [st EXCEPT !.wsObjs = Swap(@, w, [w EXCEPT !.timeout = FALSE])]
      ELSE st

----------------------------------------------------------------------------
(* The private methods and the handlers of the WebSocket *)

\* a mutation of switchToSSE: the counter is left alone
switchToSSE_keepCounter(st) ==
    clearReconnectTimer(closeAndForget(
        [st EXCEPT !.useSSE = TRUE, !.isConnected = FALSE]))

switchToSSE(st) ==
    clearReconnectTimer(closeAndForget(
        [st EXCEPT !.useSSE = TRUE, !.isConnected = FALSE, !.reconnectAttempts = 0]))

\* this.socket = new WebSocket(wsUrl), with its connectionTimeout and handlers.
\* The socket referenced before stays alive, with its handlers, unless it is CLOSED.
connectWebSocket(st) ==
    LET old == IF hasSocket(st)
                 THEN LET w == socketOf(st) IN
                      IF w.readyState = CLOSED THEN Take(st.wsObjs, w)
                      ELSE Swap(st.wsObjs, w, [w EXCEPT !.ref = FALSE])
                 ELSE st.wsObjs
    IN [st EXCEPT !.wsObjs = Put(old, NewSocket)]

\* this.reconnectTimer = setTimeout(...): the handle of the timer set before is
\* overwritten, the timer itself stays pending
scheduleReconnect(st) ==
    [st EXCEPT !.wsTimers = Put(BagOfAll(LAMBDA t : [t EXCEPT !.held = FALSE], @),
                                [held |-> TRUE, delay |-> setTimeout(reconnectInterval), stale |-> FALSE]),
               !.reconnectTimer = HANDLE]

\* a mutation of attemptReconnect: the counter is not incremented
attemptReconnect_noIncrement(st) ==
    IF st.useSSE THEN st
    ELSE IF st.reconnectAttempts >= maxReconnectAttempts THEN switchToSSE(st)
    ELSE scheduleReconnect(st)

\* a mutation of attemptReconnect: > for >=
attemptReconnect_offByOne(st) ==
    IF st.useSSE THEN st
    ELSE IF st.reconnectAttempts > maxReconnectAttempts THEN switchToSSE(st)
    ELSE scheduleReconnect([st EXCEPT !.reconnectAttempts = @ + 1])

attemptReconnect(st) ==
    IF st.useSSE THEN st
    ELSE IF st.reconnectAttempts >= maxReconnectAttempts THEN switchToSSE(st)
    ELSE scheduleReconnect([st EXCEPT !.reconnectAttempts = @ + 1])

\* socket.onopen of socket w (w is the object after the browser made it OPEN)
onopen(st, w) ==
    clearReconnectTimer(clearConnectionTimeout(
        [st EXCEPT !.isConnected = TRUE, !.reconnectAttempts = 0, !.useSSE = FALSE], w))

\* socket.onclose of socket w with the close code of the event
onclose(st, w, code) ==
    LET s1 == clearConnectionTimeout([st EXCEPT !.isConnected = FALSE], w)
    IN IF code = BLOCKED THEN switchToSSE(s1) ELSE attemptReconnect(s1)

\* socket.onerror of socket w
onerror(st, w) ==
    LET s1 == clearConnectionTimeout([st EXCEPT !.isConnected = FALSE], w)
    IN IF ~s1.useSSE THEN switchToSSE(s1) ELSE s1

\* the connectionTimeout callback (of any socket): it looks at this.socket
connectionTimeout(st) ==
    IF hasSocket(st) /\ socketOf(st).readyState = CONNECTING
      THEN switchToSSE(st)
      ELSE st

----------------------------------------------------------------------------
(* Server-Sent-Event streams *)

Min(a, b) == IF a < b THEN a ELSE b

\* Math.min(5000 * Math.pow(2, this.reconnectAttempts), 30000)
retryDelay(attempts) == Min(5000 * (2 ^ attempts), 30000)

connectSSE(st, hotelId) ==
    IF hotelId \in sseKeys(st) THEN st
    ELSE [st EXCEPT !.esObjs = Put(@, NewStream(hotelId))]

\* eventSource.onopen
onopenSSE(st) == [st EXCEPT !.isConnected = TRUE]

\* eventSource.onerror of stream e; readyState is eventSource.readyState when
\* the event is delivered: CONNECTING (the browser is reconnecting the stream
\* itself) or ES_CLOSED (the browser gave the stream up).
\* this.sseConnections.delete(hotelId) removes whatever stream is held for
\* the hotel; the stream itself is not closed.
onerrorSSE(st, e, readyState) ==
    LET others == Take(st.esObjs, e)
        deleted == BagOfAll(LAMBDA x : IF x.hotelId = e.hotelId
                                         THEN [x EXCEPT !.mapped = FALSE] ELSE x, others)
    IN IF readyState = ES_CLOSED
         THEN [st EXCEPT !.esObjs = deleted]
         ELSE [st EXCEPT !.esObjs = Put(deleted, [e EXCEPT !.readyState = CONNECTING,
                                                           !.mapped = FALSE]),
                         !.sseTimers = Put(@, [hotelId |-> e.hotelId,
                                               delay |-> setTimeout(retryDelay(st.reconnectAttempts)),
                                               stale |-> FALSE])]

\* the retry callback set by eventSource.onerror for hotelId
retrySSE(st, hotelId) ==
    IF st.useSSE /\ hotelId \notin sseKeys(st)
      THEN LET s1 == [st EXCEPT !.reconnectAttempts = @ + 1]
           IN IF s1.reconnectAttempts < maxReconnectAttempts
                THEN connectSSE(s1, hotelId)
                ELSE s1
      ELSE st

----------------------------------------------------------------------------
(* The public methods *)

\* a mutation of connect: the production branch is missing
connect_noProductionBranch(st) ==
    IF hasSocket(st) /\ st.isConnected THEN st
    ELSE IF ~st.useSSE THEN connectWebSocket(st)
    ELSE st

connect(st) ==
    IF hasSocket(st) /\ st.isConnected THEN st
    ELSE IF production /\ ~st.useSSE THEN switchToSSE(st)
    ELSE IF ~st.useSSE THEN connectWebSocket(st)
    ELSE st

\* disconnect(): the stored reconnect timer, this.socket and the streams held
\* in sseConnections are closed; pollingInterval is never set by the class.
disconnect(st) ==
    LET s1 == closeAndForget(clearReconnectTimer(st))
    IN [s1 EXCEPT !.esObjs = Keep(@, LAMBDA e : ~e.mapped),
                  !.isConnected = FALSE,
                  !.useSSE = FALSE,
                  !.reconnectAttempts = 0,
                  !.eventListeners = << >>]

roomKey(hotelId) == "roomUpdate:" \o hotelId
activityKey(hotelId) == "activityUpdate:" \o hotelId

\* if (!has(key)) set(key, []); get(key).push(callback)
addListener(st, key, callback) ==
    [st EXCEPT !.eventListeners =
        IF key \in DOMAIN @ THEN [@ EXCEPT ![key] = Append(@, callback)]
        ELSE (key :> <<callback>>) @@ @]

\* a mutation of connectFor: no stream is opened in SSE mode
connectFor_noStream(st, hotelId) ==
    IF st.useSSE THEN st
    ELSE IF ~hasSocket(st) THEN connect(st)
    ELSE st

\* the part shared by onRoomUpdate and onActivityUpdate after the push
connectFor(st, hotelId) ==
    IF st.useSSE THEN connectSSE(st, hotelId)
    ELSE IF ~hasSocket(st) THEN connect(st)
    ELSE st

onRoomUpdate(st, hotelId, callback) ==
    connectFor(addListener(st, roomKey(hotelId), callback), hotelId)

onActivityUpdate(st, hotelId, callback) ==
    connectFor(addListener(st, activityKey(hotelId), callback), hotelId)

on(st, event, callback) ==
    addListener(IF ~hasSocket(st) THEN connect(st) ELSE st, event, callback)

UNDEFINED == "undefined"

\* listeners.indexOf(callback), 1-based, 0 when absent
indexOf(list, callback) ==
    IF \E i \in 1..Len(list) : list[i] = callback
      THEN CHOOSE i \in 1..Len(list) :
               list[i] = callback /\ \A j \in 1..(i - 1) : list[j] # callback
      ELSE 0

\* a mutation of splice: listeners.splice(index), which removes to the end
splice_toEnd(list, index) == SubSeq(list, 1, index - 1)

\* listeners.splice(index, 1)
splice(list, index) == SubSeq(list, 1, index - 1) \o SubSeq(list, index + 1, Len(list))

\* off, offRoomUpdate and offActivityUpdate on the key they compute
off(st, key, callback) ==
    IF callback # UNDEFINED /\ key \in DOMAIN st.eventListeners
      THEN LET index == indexOf(st.eventListeners[key], callback)
           IN IF index > 0
                THEN [st EXCEPT !.eventListeners[key] = splice(@, index)]
                ELSE st
      ELSE st

offRoomUpdate(st, hotelId, callback) == off(st, roomKey(hotelId), callback)
offActivityUpdate(st, hotelId, callback) == off(st, activityKey(hotelId), callback)

----------------------------------------------------------------------------
(* Messages *)

\* JavaScript values are named: "object" is a non-empty plain object, "array"
\* the empty array, "zero" the number 0, "" the empty string, "null" null.
\* ABSENT marks a key that a JSON text does not have.
ABSENT == "absent"
Falsy == {"zero", "false", "", "null", UNDEFINED, ABSENT}
truthy(v) == v \notin Falsy

\* JSON.stringify({event, data}): a key whose value is undefined is left out
stringify(event, data) ==
    [valid |-> TRUE, event |-> event, type |-> ABSENT,
     data |-> IF data = UNDEFINED THEN ABSENT ELSE data]

\* a property read on the object JSON.parse returned
get(obj, key) == IF obj[key] = ABSENT THEN UNDEFINED ELSE obj[key]

\* what a callback is called with: the data field, or the whole decoded message
payloadArg(value) == [envelope |-> FALSE, event |-> ABSENT, type |-> ABSENT, data |-> value]
envelopeArg(obj) == [envelope |-> TRUE, event |-> obj.event, type |-> obj.type, data |-> obj.data]

\* socket.send(text) by the state of the socket: an OPEN socket transmits, a
\* CLOSING or CLOSED one discards the text, a CONNECTING one throws
\* InvalidStateError to the caller of emit.  sent keeps the latest frames.
send(st, w, frame, event, args) ==
    LET entry == [frame |-> frame, readyState |-> w.readyState, event |-> event, args |-> args]
    IN [st EXCEPT !.sent = IF Len(@) < MaxSent THEN Append(@, entry)
                           ELSE Append(Tail(@), entry)]

\* emit(event, ...args); an args array of another length than 1 is sent as it is
emit(st, event, args) ==
    IF hasSocket(st) /\ st.isConnected
      THEN send(st, socketOf(st),
                stringify(event, IF Len(args) = 1 THEN args[1] ELSE "array"), event, args)
      ELSE st

\* what the callback does when it is called: the call is recorded; the
\* callback "once" then unsubscribes itself from the key, the callback "adder"
\* subscribes cb1 to the key, the others return
invoke(st, key, callback, arg) ==
    LET s1 == [st EXCEPT !.delivered = Append(@, [callback |-> callback, arg |-> arg])]
    IN CASE callback = "once" -> off(s1, key, callback)
         [] callback = "adder" -> on(s1, key, "cb1")
         [] OTHER -> s1

\* listeners.forEach(callback => callback(arg)) on the array held for key:
\* the length is read once, an index that is no longer in the array is skipped
RECURSIVE forEach(_, _, _, _, _)
forEach(st, key, k, len, arg) ==
    IF k > len THEN st
    ELSE IF k > Len(st.eventListeners[key]) THEN forEach(st, key, k + 1, len, arg)
    ELSE forEach(invoke(st, key, st.eventListeners[key][k], arg), key, k + 1, len, arg)

\* socket.onmessage and eventSource.onmessage (the same code): a frame that
\* JSON.parse rejects is caught and logged
onmessage(st, frame) ==
    IF ~frame.valid THEN st
    ELSE LET eventName == IF truthy(frame.event) THEN frame.event ELSE get(frame, "type")
             arg == IF truthy(frame.data) THEN payloadArg(frame.data) ELSE envelopeArg(frame)
         IN IF eventName \in DOMAIN st.eventListeners
              THEN forEach(st, eventName, 1, Len(st.eventListeners[eventName]), arg)
              ELSE st

----------------------------------------------------------------------------
(* The state machine *)

Start ==
    /\ production \in BOOLEAN
    /\ wsObjs = EmptyBag
    /\ isConnected = FALSE
    /\ useSSE = FALSE
    /\ reconnectAttempts = 0
    /\ reconnectTimer = NULL
    /\ wsTimers = EmptyBag
    /\ eventListeners = << >>
    /\ esObjs = EmptyBag
    /\ sseTimers = EmptyBag
    /\ sent = << >>
    /\ delivered = << >>
    /\ failStreak = << >>

Init == Start /\ scope = "core"
InitWide == Start /\ scope = "wide"
InitMsg == Start /\ scope = "msg"
InitReg == Start /\ scope = "reg"
InitEmit == Start /\ scope = "emit"
InitRec == Start /\ scope = "rec"

\* the model explores the states within its bounds
Limits ==
    CASE scope = "wide" ->
           [sockets |-> WideSockets, streams |-> WideStreams, wsTimers |-> WideWsTimers,
            sseTimers |-> MaxSseTimers, listeners |-> MaxListeners]
      [] scope \in {"msg", "reg"} ->
           [sockets |-> MaxSockets, streams |-> MaxStreams, wsTimers |-> MaxWsTimers,
            sseTimers |-> MaxSseTimers, listeners |-> MsgListeners]
      [] scope = "rec" ->
           [sockets |-> WideSockets, streams |-> MaxStreams, wsTimers |-> WideWsTimers,
            sseTimers |-> MaxSseTimers, listeners |-> MaxListeners]
      [] scope = "emit" ->
           [sockets |-> WideSockets, streams |-> MaxStreams, wsTimers |-> MaxWsTimers,
            sseTimers |-> MaxSseTimers, listeners |-> MaxListeners]
      [] OTHER ->
           [sockets |-> MaxSockets, streams |-> MaxStreams, wsTimers |-> MaxWsTimers,
            sseTimers |-> MaxSseTimers, listeners |-> MaxListeners]

Bounded(st) ==
    /\ BagCardinality(st.wsObjs) <= Limits.sockets
    /\ BagCardinality(st.esObjs) <= Limits.streams
    /\ BagCardinality(st.wsTimers) <= Limits.wsTimers
    /\ BagCardinality(st.sseTimers) <= Limits.sseTimers
    /\ st.reconnectAttempts <= MaxAttempts
    /\ \A key \in DOMAIN st.eventListeners : Len(st.eventListeners[key]) <= Limits.listeners
    /\ Len(st.sent) <= MaxSent

\* the handler ends in manager state st
Becomes(st, streak) ==
    /\ Bounded(st)
    /\ wsObjs' = st.wsObjs
    /\ isConnected' = st.isConnected
    /\ useSSE' = st.useSSE
    /\ reconnectAttempts' = st.reconnectAttempts
    /\ reconnectTimer' = st.reconnectTimer
    /\ wsTimers' = st.wsTimers
    /\ eventListeners' = st.eventListeners
    /\ esObjs' = st.esObjs
    /\ sseTimers' = st.sseTimers
    /\ sent' = st.sent
    /\ delivered' = st.delivered
    /\ failStreak' = IF scope = "core" THEN streak ELSE failStreak
    /\ UNCHANGED <<production, scope>>

\* history: everything alive when disconnect() returns belongs to the session
\* that was torn down
markStale(st) ==
    IF scope # "wide" THEN st ELSE
    [st EXCEPT !.wsObjs = BagOfAll(LAMBDA w : [w EXCEPT !.stale = TRUE], @),
               !.esObjs = BagOfAll(LAMBDA e : [e EXCEPT !.stale = TRUE], @),
               !.wsTimers = BagOfAll(LAMBDA t : [t EXCEPT !.stale = TRUE], @),
               !.sseTimers = BagOfAll(LAMBDA t : [t EXCEPT !.stale = TRUE], @)]

\* the browser changes the readyState of socket w before it delivers the event;
\* a CLOSED socket that is not referenced is dropped
withSocket(st, w, readyState) ==
    IF readyState = CLOSED /\ ~w.ref
      THEN [st EXCEPT !.wsObjs = Take(@, w)]
      ELSE [st EXCEPT !.wsObjs = Swap(@, w, [w EXCEPT !.readyState = readyState])]

Connect ==
    /\ Becomes(connect(St), failStreak)

Disconnect ==
    /\ Becomes(markStale(disconnect(St)), << >>)

OnRoomUpdate(hotelId, callback) ==
    /\ Becomes(onRoomUpdate(St, hotelId, callback), failStreak)

OnActivityUpdate(hotelId, callback) ==
    /\ Becomes(onActivityUpdate(St, hotelId, callback), failStreak)

\* the WebSocket w opens
WsOpen(w) ==
    /\ w.readyState = CONNECTING
    /\ Becomes(onopen(withSocket(St, w, OPEN), [w EXCEPT !.readyState = OPEN]), << >>)

\* history: the close codes of the connection attempts that failed in a row
\* (sockets that closed while still connecting), the latest last
failedAgain(streak, w, code) ==
    IF w.readyState = CONNECTING
      THEN IF Len(streak) < maxReconnectAttempts + 1
             THEN Append(streak, code)
             ELSE Append(Tail(streak), code)
      ELSE << >>

\* the WebSocket w closes without an error event, with a close code
WsClose(w, code) ==
    /\ w.readyState # CLOSED
    /\ Becomes(onclose(withSocket(St, w, CLOSED), [w EXCEPT !.readyState = CLOSED], code),
               failedAgain(failStreak, w, code))

\* the connection of WebSocket w fails: the browser delivers an error event
\* and then a close event with code 1006, in one task
WsFail(w) ==
    /\ w.readyState # CLOSED
    /\ LET w1 == [w EXCEPT !.readyState = CLOSED]
           s1 == onerror(withSocket(St, w, CLOSED), w1)
       IN Becomes(onclose(s1, [w1 EXCEPT !.timeout = FALSE], BLOCKED), << >>)

\* the connectionTimeout of WebSocket w fires
ConnectionTimeout(w) ==
    /\ w.timeout
    /\ Becomes(connectionTimeout([St EXCEPT !.wsObjs = Swap(@, w, [w EXCEPT !.timeout = FALSE])]),
               failStreak)

\* a reconnect timer fires
ReconnectTimer(t) ==
    /\ Becomes(connectWebSocket([St EXCEPT !.wsTimers = Take(@, t)]), failStreak)

\* the EventSource e opens
EsOpen(e) ==
    /\ e.readyState = CONNECTING
    /\ Becomes(onopenSSE([St EXCEPT !.esObjs = Swap(@, e, [e EXCEPT !.readyState = OPEN])]),
               failStreak)

\* the EventSource e reports an error
EsError(e, readyState) ==
    /\ Becomes(onerrorSSE(St, e, readyState), failStreak)

\* an SSE retry timer fires
SseRetryTimer(t) ==
    /\ Becomes(retrySSE([St EXCEPT !.sseTimers = Take(@, t)], t.hotelId), failStreak)

\* a call of on(event, callback)
On(event, callback) ==
    /\ Becomes(on(St, event, callback), failStreak)

\* a call of off(event, callback); the callback may be left out
Off(event, callback) ==
    /\ Becomes(off(St, event, callback), failStreak)

\* a call of offRoomUpdate(hotelId, callback); the callback may be left out
OffRoomUpdate(hotelId, callback) ==
    /\ Becomes(offRoomUpdate(St, hotelId, callback), failStreak)

\* a call of offActivityUpdate(hotelId, callback); the callback may be left out
OffActivityUpdate(hotelId, callback) ==
    /\ Becomes(offActivityUpdate(St, hotelId, callback), failStreak)

\* a call of emit(event, ...args)
Emit(event, args) ==
    /\ Becomes(emit(St, event, args), failStreak)

\* the WebSocket w receives a text frame
WsMessage(w, frame) ==
    /\ w.readyState = OPEN
    /\ Becomes(onmessage(St, frame), failStreak)

\* the EventSource e receives a message
EsMessage(e, frame) ==
    /\ e.readyState = OPEN
    /\ Becomes(onmessage(St, frame), failStreak)

Events == {"roomUpdate:h1", "ping"}
Payloads == {"object", "zero", "null", UNDEFINED}
Arguments == {<< >>} \cup {<<p>> : p \in Payloads}
MsgCallbacks == {"cb1", "cb2"}
\* the callbacks and the keys of on and off; in scope "reg" two of the
\* callbacks call back into the manager
Subscribers == IF scope = "reg" THEN {"cb1", "once", "adder"} ELSE MsgCallbacks
Keys == IF scope = "reg" THEN {"ping"} ELSE Events

\* frames the server sends on its own: an update without data, one named by
\* type, and a text that is not JSON
ServerFrames ==
    {[valid |-> TRUE, event |-> ABSENT, type |-> "roomUpdate:h1", data |-> "object"],
     [valid |-> TRUE, event |-> "ping", type |-> ABSENT, data |-> ABSENT],
     [valid |-> FALSE, event |-> ABSENT, type |-> ABSENT, data |-> ABSENT]}

\* the frames the server has received and may send back
Echoes == {sent[i].frame : i \in {j \in 1..Len(sent) : sent[j].readyState = OPEN}}

CallConnect == Connect
CallPing == Emit("ping", << >>)
CallOn == \E e \in Keys, c \in Subscribers : On(e, c)
CallOff == \E e \in Keys, c \in Subscribers \cup {UNDEFINED} : Off(e, c)
CallOffRoomUpdate == \E h \in Hotels, c \in Callbacks \cup {UNDEFINED} : OffRoomUpdate(h, c)
CallOffActivityUpdate ==
    \E h \in Hotels, c \in Callbacks \cup {UNDEFINED} : OffActivityUpdate(h, c)
CallEmit == \E e \in Events, a \in Arguments : Emit(e, a)
EvWsMessage == \E w \in BagToSet(wsObjs), f \in ServerFrames \cup Echoes : WsMessage(w, f)
EvEsMessage == \E e \in BagToSet(esObjs), f \in ServerFrames : EsMessage(e, f)
CallDisconnect == Disconnect
CallOnRoomUpdate == \E h \in Hotels, c \in Callbacks : OnRoomUpdate(h, c)
CallOnActivityUpdate == \E h \in Hotels, c \in Callbacks : OnActivityUpdate(h, c)
EvWsOpen == \E w \in BagToSet(wsObjs) : WsOpen(w)
EvWsClose == \E w \in BagToSet(wsObjs), code \in CloseCodes : WsClose(w, code)
EvWsFail == \E w \in BagToSet(wsObjs) : WsFail(w)
EvConnectionTimeout == \E w \in BagToSet(wsObjs) : ConnectionTimeout(w)
EvReconnectTimer == \E t \in BagToSet(wsTimers) : ReconnectTimer(t)
EvEsOpen == \E e \in BagToSet(esObjs) : EsOpen(e)
EvEsError == \E e \in BagToSet(esObjs), rs \in {CONNECTING, ES_CLOSED} : EsError(e, rs)
EvSseRetryTimer == \E t \in BagToSet(sseTimers) : SseRetryTimer(t)

Next ==
    \/ CallConnect
    \/ CallDisconnect
    \/ CallOnRoomUpdate
    \/ EvWsOpen
    \/ EvWsClose
    \/ EvWsFail
    \/ EvConnectionTimeout
    \/ EvReconnectTimer
    \/ EvEsOpen
    \/ EvEsError
    \/ EvSseRetryTimer

Spec == Init /\ [][Next]_vars
SpecWide == InitWide /\ [][Next]_vars

NextMsg ==
    \/ CallConnect
    \/ CallDisconnect
    \/ CallOn
    \/ CallOff
    \/ CallOnRoomUpdate
    \/ CallOnActivityUpdate
    \/ CallEmit
    \/ EvWsOpen
    \/ EvWsClose
    \/ EvWsMessage
    \/ EvEsOpen
    \/ EvEsMessage

SpecMsg == InitMsg /\ [][NextMsg]_vars

\* subscribing, unsubscribing and dispatch, with no disconnect()
NextReg ==
    \/ CallConnect
    \/ CallOn
    \/ CallOff
    \/ CallOnRoomUpdate
    \/ CallOffRoomUpdate
    \/ CallOnActivityUpdate
    \/ CallOffActivityUpdate
    \/ EvWsOpen
    \/ EvWsMessage

SpecReg == InitReg /\ [][NextReg]_vars

\* emit() in every connection state
NextEmit ==
    \/ CallConnect
    \/ CallDisconnect
    \/ CallOnRoomUpdate
    \/ CallEmit
    \/ EvWsOpen
    \/ EvWsClose
    \/ EvReconnectTimer
    \/ EvEsOpen

SpecEmit == InitEmit /\ [][NextEmit]_vars

\* the WebSocket and its reconnects, with several sockets and timers alive
NextRec ==
    \/ CallConnect
    \/ CallDisconnect
    \/ CallPing
    \/ EvWsOpen
    \/ EvWsClose
    \/ EvWsFail
    \/ EvConnectionTimeout
    \/ EvReconnectTimer

SpecRec == InitRec /\ [][NextRec]_vars

----------------------------------------------------------------------------
(* The connection states of the specification, read off the fields *)

FallbackActive == useSSE
ConnectedBidirectional == ~useSSE /\ isConnected /\ hasSocket(St)

\* the manager is as disconnect() leaves it
Clean ==
    /\ ~hasSocket(St)
    /\ sseConnections = {}
    /\ ~useSSE
    /\ ~isConnected
    /\ reconnectAttempts = 0
    /\ reconnectTimer = NULL
    /\ eventListeners = << >>

\* this step constructed a WebSocket
socketCreated ==
    /\ hasSocket(St)'
    /\ socketOf(St)' = NewSocket
    /\ \/ ~hasSocket(St)
       \/ socketOf(St) # NewSocket
       \/ BagCardinality(wsObjs') > BagCardinality(wsObjs)

\* a timer set before the last disconnect() fires in this step
staleTimerFires ==
    \/ \E w \in BagToSet(wsObjs) : w.stale /\ ConnectionTimeout(w)
    \/ \E t \in BagToSet(wsTimers) : t.stale /\ ReconnectTimer(t)
    \/ \E t \in BagToSet(sseTimers) : t.stale /\ SseRetryTimer(t)

\* a transport created before the last disconnect() delivers an event in this step
staleTransportEvent ==
    \/ \E w \in BagToSet(wsObjs) :
          w.stale /\ (WsOpen(w) \/ WsFail(w) \/ \E code \in CloseCodes : WsClose(w, code))
    \/ \E e \in BagToSet(esObjs) :
          e.stale /\ (EsOpen(e) \/ \E rs \in {CONNECTING, ES_CLOSED} : EsError(e, rs))

----------------------------------------------------------------------------
(* The claims *)

\* C1 (as claimed; refuted): when the manager is as disconnect() left it, a
\* timer set before that disconnect() changes nothing when it fires: no socket
\* and no stream is created, no timer is set, no callback is called and the
\* fields keep the values disconnect() gave them.
C1_StaleTimersDoNothing ==
    [][(Clean /\ staleTimerFires) =>
          /\ Clean'
          /\ esObjs' = esObjs
          /\ BagCardinality(wsObjs') <= BagCardinality(wsObjs)
          /\ BagCardinality(wsTimers') <= BagCardinality(wsTimers)
          /\ delivered' = << >>]_vars

\* C2 (as claimed; refuted): an event of a transport of a torn-down session,
\* or a timer of that session, leaves useSSE and reconnectAttempts as they
\* are, sets no reconnect timer, creates no socket and does not touch the
\* socket the manager references.
C2_NoLeakAcrossDisconnect ==
    [][(staleTransportEvent \/ staleTimerFires) =>
          /\ useSSE' = useSSE
          /\ reconnectAttempts' = reconnectAttempts
          /\ BagCardinality(wsTimers') <= BagCardinality(wsTimers)
          /\ ~socketCreated
          /\ hasSocket(St) => (hasSocket(St)' /\ socketOf(St)' = socketOf(St))]_vars

\* C3 (as claimed; refuted): once useSSE is true, every step other than
\* disconnect() keeps it true and constructs no WebSocket.
C3_FallbackPermanent ==
    [][(useSSE /\ ~Disconnect) => (useSSE' /\ ~socketCreated)]_vars

\* C4 (as claimed; refuted): in every reachable state there is at most one
\* live (not closed) EventSource per hotel.
C4_OneStreamPerTopic ==
    \A h \in Hotels : BagCardinality(Keep(esObjs, LAMBDA e : e.hotelId = h)) <= 1

\* C5 (confirmed): in production no WebSocket ever exists, the state is never
\* ConnectedBidirectional, and connect() ends in FallbackActive.
C5_ProductionGoesToFallback ==
    /\ [](production => (wsObjs = EmptyBag /\ ~ConnectedBidirectional))
    /\ [][(production /\ Connect) => (FallbackActive' /\ wsObjs' = EmptyBag)]_vars

\* a production session that connect() has put in fallback
C5_Witness ==
    production /\ FallbackActive /\ wsObjs = EmptyBag /\ ~isConnected

\* C6 (as claimed; refuted): a close with code 1006 ends in FallbackActive
\* with reconnectAttempts as it was before the handler.
C6_BlockedCloseKeepsCounter ==
    [][\A w \in BagToSet(wsObjs) :
          WsClose(w, BLOCKED) =>
              (FallbackActive' /\ reconnectAttempts' = reconnectAttempts)]_vars

\* C6 (amended): a close with code 1006 ends in FallbackActive with
\* reconnectAttempts = 0: the handler never increments the counter, and the
\* switch to SSE resets it.
C6_BlockedCloseResetsCounter ==
    [][\A w \in BagToSet(wsObjs) :
          WsClose(w, BLOCKED) => (FallbackActive' /\ reconnectAttempts' = 0)]_vars

\* an attempt failed with another code (the counter went to 1) and the next
\* one closed with 1006: fallback, counter 0
C6_Witness ==
    failStreak = <<NORMAL, BLOCKED>> /\ FallbackActive /\ reconnectAttempts = 0

C8_DisconnectTearsDownAll ==
    [][Disconnect =>
          /\ Clean'
          /\ esObjs' = EmptyBag
          /\ wsTimers' = EmptyBag
          /\ sseTimers' = EmptyBag]_vars

\* C9 (as claimed; refuted): connect() is idempotent: right after a connect(),
\* a second connect() would change nothing.
C9_ConnectIdempotent ==
    [][Connect => connect(St)' = St']_vars

\* what a looped-back emit(event, payload) has to deliver: one call per
\* listener of the key, in order, with the payload
expectedDelivery(event, payload) ==
    IF event \in DOMAIN eventListeners
      THEN [k \in 1..Len(eventListeners[event]) |->
               [callback |-> eventListeners[event][k], arg |-> payloadArg(payload)]]
      ELSE << >>

\* C10 (as claimed; refuted): a frame sent by emit(event, payload) on an open
\* socket and received back calls every listener of the key once, in
\* subscription order, with the payload (a payload JSON can carry), and calls
\* no other listener.
C10_RoundTrip ==
    [][\A w \in BagToSet(wsObjs), i \in 1..Len(sent) :
          (/\ sent[i].readyState = OPEN
           /\ Len(sent[i].args) = 1
           /\ sent[i].args # <<UNDEFINED>>
           /\ WsMessage(w, sent[i].frame))
          => delivered' = expectedDelivery(sent[i].event, sent[i].args[1])]_vars

\* the replay of C11: append, and remove-first-match by reference
RECURSIVE removeFirstMatch(_, _)
removeFirstMatch(list, callback) ==
    IF list = << >> THEN << >>
    ELSE IF Head(list) = callback THEN Tail(list)
    ELSE <<Head(list)>> \o removeFirstMatch(Tail(list), callback)

replaySubscribe(registry, key, callback) ==
    [k \in DOMAIN registry \cup {key} |->
        IF k # key THEN registry[k]
        ELSE IF key \in DOMAIN registry THEN registry[key] \o <<callback>>
        ELSE <<callback>>]

replayUnsubscribe(registry, key, callback) ==
    IF callback = UNDEFINED \/ key \notin DOMAIN registry THEN registry
    ELSE [k \in DOMAIN registry |->
             IF k = key THEN removeFirstMatch(registry[k], callback) ELSE registry[k]]

eventName(frame) == IF truthy(frame.event) THEN frame.event ELSE get(frame, "type")

\* how often a callback is in a list, and how often this step called it
occurrences(list, callback) == Cardinality({i \in 1..Len(list) : list[i] = callback})
calls(callback) == Cardinality({i \in 1..Len(delivered') : delivered'[i].callback = callback})

\* C12 (as claimed; refuted): in the dispatch of one message, a callback that
\* was in the list of the key when the dispatch started and was not removed
\* during it is called once for each time it was in the list, and no callback
\* is called more often than it was in the list at the start (a callback
\* added during the dispatch is not called for it).
C12_DispatchReentrancySafe ==
    [][\A w \in BagToSet(wsObjs), f \in ServerFrames :
          (/\ WsMessage(w, f)
           /\ f.valid
           /\ eventName(f) \in DOMAIN eventListeners)
          => LET before == eventListeners[eventName(f)]
                 after == eventListeners'[eventName(f)]
             IN \A c \in Subscribers :
                   /\ occurrences(after, c) >= occurrences(before, c)
                         => calls(c) = occurrences(before, c)
                   /\ calls(c) <= occurrences(before, c)]_vars

\* C13 (as claimed; refuted): emit() with no open socket referenced sends
\* nothing, throws nothing and changes no state: send is called on an OPEN
\* socket only.
C13_EmitOnlyWhenOpen ==
    [][\A e \in Events, a \in Arguments :
          (Emit(e, a) /\ ~(hasSocket(St) /\ socketOf(St).readyState = OPEN))
          => St' = St]_vars

C15_CounterResetAndIncrement ==
    [][/\ (EvWsOpen \/ EvEsOpen \/ Disconnect) => reconnectAttempts' = 0
       /\ reconnectAttempts' > reconnectAttempts => (EvWsClose \/ EvWsFail)]_vars

\* a roomUpdate or activityUpdate listener is registered for the hotel
hasTopicListener(h) ==
    \E key \in {roomKey(h), activityKey(h)} :
        key \in DOMAIN eventListeners /\ eventListeners[key] # << >>

\* C16 (as claimed; refuted): in FallbackActive every hotel with a registered
\* roomUpdate/activityUpdate listener has a live stream or a pending retry timer.
C16_FallbackServesSubscribers ==
    FallbackActive =>
        \A h \in Hotels :
            hasTopicListener(h) =>
                \/ \E e \in BagToSet(esObjs) : e.hotelId = h
                \/ \E t \in BagToSet(sseTimers) : t.hotelId = h

\* the connection states of a WebSocket attempt, read off the fields
ConnectingBidirectional ==
    ~useSSE /\ hasSocket(St) /\ socketOf(St).readyState = CONNECTING /\ ~isConnected
Disconnected == ~useSSE /\ ~hasSocket(St)

\* C17 (as claimed; refuted): when the connectionTimeout of a WebSocket fires
\* while that socket has neither opened nor closed, the manager closes that
\* socket (it is no longer connecting) and is in FallbackActive.  (A socket that opened or closed has
\* cleared its timeout, which then never fires.)
C17_TimeoutResolvesAttempt ==
    [][\A w \in BagToSet(wsObjs) :
          (ConnectionTimeout(w) /\ w.readyState = CONNECTING)
          => /\ FallbackActive'
             /\ CopiesIn([w EXCEPT !.timeout = FALSE], wsObjs')
                   <= CopiesIn([w EXCEPT !.timeout = FALSE], wsObjs)]_vars

\* a reconnect is pending: not in SSE mode, not connected, the handle of a
\* reconnect timer stored
ReconnectingBidirectional == ~useSSE /\ ~isConnected /\ reconnectTimer = HANDLE

\* C18 (confirmed): in ConnectedBidirectional, the close of an open WebSocket
\* with a code other than 1006 and reconnectAttempts < maxReconnectAttempts
\* ends in ReconnectingBidirectional with the counter one higher, one more
\* reconnect timer pending (set with reconnectInterval, its handle stored) and
\* no socket created.  A close with a code other than 1006 that arrives in
\* bidirectional mode with the counter at maxReconnectAttempts ends in
\* FallbackActive with no timer added and no handle stored.  A reconnect
\* timer that fires constructs exactly one WebSocket.
C18_CloseOfOpenTransport ==
    [][/\ \A w \in BagToSet(wsObjs) :
             (/\ ConnectedBidirectional
              /\ w.readyState = OPEN
              /\ reconnectAttempts < maxReconnectAttempts
              /\ WsClose(w, NORMAL)) =>
                 /\ ReconnectingBidirectional'
                 /\ reconnectAttempts' = reconnectAttempts + 1
                 /\ BagCardinality(wsTimers') = BagCardinality(wsTimers) + 1
                 /\ BagIn([held |-> TRUE, delay |-> reconnectInterval, stale |-> FALSE],
                          wsTimers')
                 /\ BagCardinality(wsObjs') <= BagCardinality(wsObjs)
       /\ \A w \in BagToSet(wsObjs) :
             (/\ ~useSSE
              /\ reconnectAttempts >= maxReconnectAttempts
              /\ WsClose(w, NORMAL)) =>
                 /\ FallbackActive'
                 /\ BagCardinality(wsTimers') <= BagCardinality(wsTimers)
                 /\ reconnectTimer' = NULL
       /\ \A t \in BagToSet(wsTimers) :
             ReconnectTimer(t) =>
                 /\ socketCreated
                 /\ BagCardinality(wsObjs') <= BagCardinality(wsObjs) + 1
                 /\ wsTimers' = Take(wsTimers, t)]_vars

\* a socket that was open (a frame was sent on it) has closed, one reconnect
\* is counted and its timer is pending
C18_Witness ==
    /\ ReconnectingBidirectional
    /\ reconnectAttempts = 1
    /\ wsObjs = One([NewSocket EXCEPT !.readyState = CLOSED, !.timeout = FALSE])
    /\ wsTimers = One([held |-> TRUE, delay |-> reconnectInterval, stale |-> FALSE])
    /\ sent # << >>
    /\ sent[1].readyState = OPEN

\* the retry timers pending for one hotel
retryTimersOf(hotelId) == Keep(sseTimers, LAMBDA t : t.hotelId = hotelId)

\* C19 (code bug): in every state at most one reconnect timer is pending and
\* at most one retry timer per hotel; a reconnect timer whose handle is no
\* longer stored constructs no WebSocket when it fires.
C19_OneTimerPerScope ==
    /\ [](/\ BagCardinality(wsTimers) <= 1
          /\ \A h \in Hotels : BagCardinality(retryTimersOf(h)) <= 1)
    /\ [][\A t \in BagToSet(wsTimers) :
             (~t.held /\ ReconnectTimer(t)) => wsObjs' = wsObjs]_vars

\* C20 (code bug): in every state 0 <= reconnectAttempts <= maxReconnectAttempts.
C20_CounterWithinCeiling ==
    /\ 0 <= reconnectAttempts
    /\ reconnectAttempts <= maxReconnectAttempts

\* C21 (code bug): the delay of a retry depends on the failures in a row of
\* the hotel's own stream.  A stream that is OPEN has not failed since it
\* opened, so its error is failure number 0 and the retry timer set by its
\* error handler has the delay retryDelay(0).
C21_RetryBackoffPerTopic ==
    [][\A e \in BagToSet(esObjs) :
          (e.readyState = OPEN /\ EsError(e, CONNECTING)) =>
              \E t \in BagToSet(sseTimers') :
                  /\ t.hotelId = e.hotelId
                  /\ t.delay = retryDelay(0)
                  /\ CopiesIn(t, sseTimers') > CopiesIn(t, sseTimers)]_vars

\* what the claim of C22 has a decoded message deliver: the key is the event
\* field, or the type field when there is no event field; each listener of
\* the key is called with the data field when the message has one, and with
\* the whole message when it has none
expectedInbound(frame) ==
    LET key == IF frame.event # ABSENT THEN frame.event ELSE get(frame, "type")
        arg == IF frame.data # ABSENT THEN payloadArg(frame.data) ELSE envelopeArg(frame)
    IN IF key \in DOMAIN eventListeners
         THEN [k \in 1..Len(eventListeners[key]) |->
                  [callback |-> eventListeners[key][k], arg |-> arg]]
         ELSE << >>

\* the handling of frame as C22 claims it
inboundAsClaimed(frame) ==
    IF frame.valid
      THEN delivered' = expectedInbound(frame)
      ELSE delivered' = << >> /\ St' = St

\* C22 (code bug): a message received on a WebSocket or on a stream is
\* dispatched under its event field (its type field when event is absent) to
\* the listeners of that key, with its data field whenever it has one,
\* whatever the value, and with the whole message otherwise; a text that is
\* not JSON calls no listener and changes nothing.
C22_InboundDispatch ==
    [][/\ \A w \in BagToSet(wsObjs), f \in ServerFrames \cup Echoes :
             WsMessage(w, f) => inboundAsClaimed(f)
       /\ \A e \in BagToSet(esObjs), f \in ServerFrames :
             EsMessage(e, f) => inboundAsClaimed(f)]_vars

\* isSocketConnected(): return this.isConnected
isSocketConnected == isConnected

\* a WebSocket or an EventSource of the manager is open
someTransportOpen ==
    \/ \E w \in BagToSet(wsObjs) : w.readyState = OPEN
    \/ \E e \in BagToSet(esObjs) : e.readyState = OPEN

\* C23 (code bug): in every state isSocketConnected() returns true only if a
\* WebSocket is open or at least one stream is open.
C23_ConnectedQueryAccurate == isSocketConnected => someTransportOpen

\* C24 (code bug): in every state, a stream held in sseConnections implies
\* useSSE, and useSSE implies that this.socket is null.
C24_TransportsExclusive ==
    /\ (sseConnections # {}) => useSSE
    /\ useSSE => ~hasSocket(St)

====
